---- MODULE Spec2Model ----
(***************************************************************************)
(* Telemetry (src/src/crewai/telemetry/telemetry.py): the readiness gate,  *)
(* the span emitters of the event catalog and the span handles they hand   *)
(* to their callers.                                                       *)
(*                                                                         *)
(* State: ready and trace_set are the two fields of the Telemetry object.  *)
(* spans is the table of span handles that callers hold (the "Task         *)
(* Execution" spans returned by task_started and the "Crew Execution"      *)
(* span returned by crew_execution_span); a handle is an index into it,    *)
(* None is the absent handle.  execution_span is crew._execution_span.     *)
(* cause records which assignment gave ready its value.                    *)
(* installs counts the calls of trace.set_tracer_provider made since the   *)
(* last __init__: 0, 1, or 2 for more than one.                            *)
(* last is the observation of the call that has just returned: the state   *)
(* it was made in, what it was given and the calls it made on the tracing  *)
(* library, in order.  The caller drops it before the next call.           *)
(***************************************************************************)
EXTENDS Integers, Sequences, FiniteSets, TLC

VARIABLES ready, trace_set, cause, installs, spans, execution_span, last

vars == <<ready, trace_set, cause, installs, spans, execution_span, last>>

\* Bound: span handles held by callers at one time.
MaxHandles == 2

\* The absent handle (Python None) as a table index.
None == 0

(***************************************************************************)
(* Attribute values.  One record shape for all of them.                    *)
(***************************************************************************)
StrV(s) == [t |-> "str", n |-> 0, s |-> s]
IntV(n) == [t |-> "int", n |-> n, s |-> <<>>]
Null == [t |-> "null", n |-> 0, s |-> <<>>]

(***************************************************************************)
(* Subject data.  A list item is "p" (a primitive, serializable value) or  *)
(* "o" (an object json cannot encode).  inputs = <<>> is None or {}.       *)
(***************************************************************************)
CrewSamples ==
  { [agents |-> <<"p">>, tasks |-> <<"p", "p">>, inputs |-> <<"p">>],
    [agents |-> <<>>,    tasks |-> <<>>,         inputs |-> <<>>],
    [agents |-> <<"o">>, tasks |-> <<"p">>,      inputs |-> <<"p">>],
    [agents |-> <<"p">>, tasks |-> <<"o">>,      inputs |-> <<"p">>],
    [agents |-> <<"p">>, tasks |-> <<"p">>,      inputs |-> <<"o">>] }

NodeSamples == { <<"p", "p">>, <<"o">> }

(***************************************************************************)
(* Failures of the environment during one call.  A site is a call on the   *)
(* tracing library or the read of the share flag; a raise is a value       *)
(* expression that raises when evaluated (by where the value comes from    *)
(* and by tier); a drop is span.set_attribute raising for the attributes   *)
(* of one tier.  All are ordinary exceptions (subclasses of Exception).    *)
(***************************************************************************)
NoFault == <<"none", "none">>

SiteFaults ==
  { <<"site", s>> : s \in {"get_tracer", "start_span", "share_crew", "set_status", "end"} }

RaiseFaults ==
  { <<"raise", s>> : s \in {"version", "host", "always", "optin"} }

DropFaults == { <<"drop", s>> : s \in {"always", "optin"} }

Faults == {NoFault} \cup SiteFaults \cup RaiseFaults \cup DropFaults

\* The input of one call, with every field an operation may read.
Input(share, crew, llm, uuid, output, nodes, arg, fault) ==
  [share |-> share, agents |-> crew.agents, tasks |-> crew.tasks,
   inputs |-> crew.inputs, llm |-> llm, uuid |-> uuid, output |-> output,
   node_names |-> nodes, arg |-> arg, fault |-> fault]

NoCrew == [agents |-> <<>>, tasks |-> <<>>, inputs |-> <<>>]

(***************************************************************************)
(* json.dumps of a list: the text, as tokens; it raises on an "o" item.    *)
(***************************************************************************)
Serializable(list) == \A i \in 1..Len(list) : list[i] # "o"

RECURSIVE Items(_)
Items(list) ==
  IF Len(list) = 0 THEN <<>>
  ELSE IF Len(list) = 1 THEN <<list[1]>>
  ELSE <<list[1], ",">> \o Items(Tail(list))

json_dumps(list) == <<"[">> \o Items(list) \o <<"]">>

(***************************************************************************)
(* One operation body is a list of steps, in source order.  A step is one  *)
(* statement of the try block: obtaining the tracer, opening a span, the   *)
(* read of the share flag, one _add_attribute call with its value          *)
(* expression, set_status, end, return.  span names the local variable by  *)
(* the name of the span it holds; "arg" is the handle the call was given.  *)
(***************************************************************************)
Step(k, span, key, tier, e, a) ==
  [k |-> k, span |-> span, key |-> key, tier |-> tier, e |-> e, a |-> a]

GetTracer == Step("tracer", "", "", "", "", "")
StartSpan(name) == Step("start", name, "", "", "", "")
ReadShare == Step("share", "", "", "", "", "")
Attr(span, key, tier, e, a) == Step("attr", span, key, tier, e, a)
SetStatusOK(span) == Step("status", span, "", "", "", "")
EndSpan(span) == Step("end", span, "", "", "", "")
Return(span) == Step("return", span, "", "", "", "")

\* A call made on the tracing library, as the exporter sees it.
Ev(e, span, key, v) == [e |-> e, span |-> span, key |-> key, v |-> v]

\* Value expressions that read the observed subject (crew, task, llm).
SubjectReads == {"get", "len", "str", "dumps", "output", "tasks_output"}

\* Whether evaluating the value expression of an attribute step raises.
EvalRaises(st, in) ==
  \/ st.e = "version" /\ in.fault = <<"raise", "version">>
  \/ st.e = "host" /\ in.fault = <<"raise", "host">>
  \/ st.e \in SubjectReads /\ in.fault = <<"raise", st.tier>>
  \/ st.e \in {"dumps", "dumps_arg"} /\ ~Serializable(in[st.a])
  \/ st.e = "dumps_or_none" /\ in[st.a] # <<>> /\ ~Serializable(in[st.a])
  \/ st.e = "tasks_output" /\ ~Serializable(in.tasks)

\* The value of the expression when it does not raise.
EvalValue(st, in) ==
  CASE st.e = "len" -> IntV(Len(in[st.a]))
    [] st.e \in {"dumps", "dumps_arg"} -> StrV(json_dumps(in[st.a]))
    [] st.e = "dumps_or_none" ->
         IF in[st.a] = <<>> THEN Null ELSE StrV(json_dumps(in[st.a]))
    [] st.e = "tasks_output" ->
         StrV(json_dumps([i \in 1..Len(in.tasks) |-> "id,description,output"]))
    [] st.e = "output" -> IF in.output THEN StrV(<<"raw">>) ELSE StrV(<<>>)
    [] st.e = "str" -> StrV(<<"str", st.a>>)
    [] OTHER -> StrV(<<st.a>>)

\* span.set_attribute raises: the span is None, or the value is refused.
SetAttributeRaises(st, in) ==
  \/ st.span = "arg" /\ in.arg = None
  \/ in.fault = <<"drop", st.tier>>

\* _add_attribute: try span.set_attribute(key, value), except Exception: pass.
_add_attribute(acc, st, in, v) ==
  IF SetAttributeRaises(st, in) THEN acc
  ELSE [acc EXCEPT !.trace = Append(@, Ev("attr", st.span, st.key, v))]

Abort(acc) == [acc EXCEPT !.stop = TRUE, !.aborted = TRUE]

\* One statement of a try block.
Exec(st, in, acc) ==
  CASE st.k = "tracer" ->
         IF in.fault = <<"site", "get_tracer">> THEN Abort(acc) ELSE acc
    [] st.k = "start" ->
         IF in.fault = <<"site", "start_span">> THEN Abort(acc)
         ELSE [acc EXCEPT !.trace = Append(@, Ev("start", st.span, "", Null))]
    [] st.k = "share" ->
         IF in.fault = <<"site", "share_crew">> THEN Abort(acc) ELSE acc
    [] st.k = "attr" ->
         IF EvalRaises(st, in) THEN Abort(acc)
         ELSE _add_attribute(acc, st, in, EvalValue(st, in))
    [] st.k = "status" ->
         IF (st.span = "arg" /\ in.arg = None) \/ in.fault = <<"site", "set_status">>
         THEN Abort(acc)
         ELSE [acc EXCEPT !.trace = Append(@, Ev("status", st.span, "", StrV(<<"OK">>)))]
    [] st.k = "end" ->
         IF (st.span = "arg" /\ in.arg = None) \/ in.fault = <<"site", "end">>
         THEN Abort(acc)
         ELSE [acc EXCEPT !.trace = Append(@, Ev("end", st.span, "", Null))]
    [] st.k = "return" -> [acc EXCEPT !.stop = TRUE, !.ret = st.span]

RECURSIVE Run(_, _, _)
Run(steps, in, acc) ==
  IF steps = <<>> \/ acc.stop THEN acc
  ELSE Run(Tail(steps), in, Exec(Head(steps), in, acc))

\* The outcome of a call that does nothing (the gate is closed).
Nothing == [trace |-> <<>>, ret |-> "None", raised |-> FALSE, aborted |-> FALSE]

\* try: <steps>  except Exception: pass -- then the implicit return None.
Try(steps, in) ==
  LET acc == Run(steps, in, [trace |-> <<>>, ret |-> "None", stop |-> FALSE, aborted |-> FALSE])
  IN  [trace |-> acc.trace, ret |-> acc.ret, raised |-> FALSE, aborted |-> acc.aborted]

\* An exception that leaves the call (raised outside any try block).
Escapes == [trace |-> <<>>, ret |-> "None", raised |-> TRUE, aborted |-> TRUE]

(***************************************************************************)
(* The event catalog.  Each body is the operation's code as an outcome:    *)
(* the gate on ready, then the try block.                                  *)
(***************************************************************************)
\* crew_creation with the two counts taken from the other list.
crew_creation_body_swapped(in, rdy) ==
  IF rdy THEN
    Try(<< GetTracer, StartSpan("Crew Created"),
           Attr("Crew Created", "crewai_version", "always", "get", "crewai_version"),
           Attr("Crew Created", "python_version", "always", "host", "python_version"),
           Attr("Crew Created", "crew_key", "always", "get", "key"),
           Attr("Crew Created", "crew_id", "always", "get", "id"),
           Attr("Crew Created", "crew_process", "always", "get", "process"),
           Attr("Crew Created", "crew_memory", "always", "get", "memory"),
           Attr("Crew Created", "crew_number_of_tasks", "always", "len", "agents"),
           Attr("Crew Created", "crew_number_of_agents", "always", "len", "tasks"),
           ReadShare >>
        \o (IF in.share THEN
              << Attr("Crew Created", "crew_agents", "optin", "dumps", "agents"),
                 Attr("Crew Created", "crew_tasks", "optin", "dumps", "tasks"),
                 Attr("Crew Created", "platform", "optin", "host", "platform"),
                 Attr("Crew Created", "platform_release", "optin", "host", "release"),
                 Attr("Crew Created", "platform_system", "optin", "host", "system"),
                 Attr("Crew Created", "platform_version", "optin", "host", "version"),
                 Attr("Crew Created", "cpus", "optin", "host", "cpu_count"),
                 Attr("Crew Created", "crew_inputs", "optin", "dumps_or_none", "inputs") >>
            ELSE <<>>)
        \o << SetStatusOK("Crew Created"), EndSpan("Crew Created") >>, in)
  ELSE Nothing

crew_creation_body(in, rdy) ==
  IF rdy THEN
    Try(<< GetTracer, StartSpan("Crew Created"),
           Attr("Crew Created", "crewai_version", "always", "get", "crewai_version"),
           Attr("Crew Created", "python_version", "always", "host", "python_version"),
           Attr("Crew Created", "crew_key", "always", "get", "key"),
           Attr("Crew Created", "crew_id", "always", "get", "id"),
           Attr("Crew Created", "crew_process", "always", "get", "process"),
           Attr("Crew Created", "crew_memory", "always", "get", "memory"),
           Attr("Crew Created", "crew_number_of_tasks", "always", "len", "tasks"),
           Attr("Crew Created", "crew_number_of_agents", "always", "len", "agents"),
           ReadShare >>
        \o (IF in.share THEN
              << Attr("Crew Created", "crew_agents", "optin", "dumps", "agents"),
                 Attr("Crew Created", "crew_tasks", "optin", "dumps", "tasks"),
                 Attr("Crew Created", "platform", "optin", "host", "platform"),
                 Attr("Crew Created", "platform_release", "optin", "host", "release"),
                 Attr("Crew Created", "platform_system", "optin", "host", "system"),
                 Attr("Crew Created", "platform_version", "optin", "host", "version"),
                 Attr("Crew Created", "cpus", "optin", "host", "cpu_count"),
                 Attr("Crew Created", "crew_inputs", "optin", "dumps_or_none", "inputs") >>
            ELSE <<>>)
        \o << SetStatusOK("Crew Created"), EndSpan("Crew Created") >>, in)
  ELSE Nothing

TaskAttrs(span, in) ==
  << Attr(span, "crew_key", "always", "get", "crew.key"),
     Attr(span, "crew_id", "always", "str", "crew.id"),
     Attr(span, "task_key", "always", "get", "task.key"),
     Attr(span, "task_id", "always", "str", "task.id"),
     ReadShare >>
  \o (IF in.share THEN
        << Attr(span, "formatted_description", "optin", "get", "task.description"),
           Attr(span, "formatted_expected_output", "optin", "get", "task.expected_output") >>
      ELSE <<>>)

task_started_body(in, rdy) ==
  IF rdy THEN
    Try(<< GetTracer, StartSpan("Task Created") >>
        \o TaskAttrs("Task Created", in)
        \o << SetStatusOK("Task Created"), EndSpan("Task Created"),
              StartSpan("Task Execution") >>
        \o TaskAttrs("Task Execution", in)
        \o << Return("Task Execution") >>, in)
  ELSE Nothing

\* task_ended without its gate on ready.
task_ended_ungated(in, rdy) ==
  Try(<< ReadShare >>
      \o (IF in.share THEN << Attr("arg", "task_output", "optin", "output", "task.output") >>
          ELSE <<>>)
      \o << SetStatusOK("arg"), EndSpan("arg") >>, in)

\* task_ended attaching the task output whatever the share flag.
task_ended_leaky(in, rdy) ==
  IF rdy THEN
    Try(<< ReadShare, Attr("arg", "task_output", "optin", "output", "task.output"),
           SetStatusOK("arg"), EndSpan("arg") >>, in)
  ELSE Nothing


task_ended_body(in, rdy) ==
  IF rdy THEN
    Try(<< ReadShare >>
        \o (IF in.share THEN << Attr("arg", "task_output", "optin", "output", "task.output") >>
            ELSE <<>>)
        \o << SetStatusOK("arg"), EndSpan("arg") >>, in)
  ELSE Nothing

LlmAttr(span, in) ==
  IF in.llm THEN << Attr(span, "llm", "always", "get", "llm.model") >> ELSE <<>>

UuidAttr(span, in) ==
  IF in.uuid THEN << Attr(span, "uuid", "always", "arg", "uuid") >> ELSE <<>>

tool_repeated_usage_body(in, rdy) ==
  IF rdy THEN
    Try(<< GetTracer, StartSpan("Tool Repeated Usage"),
           Attr("Tool Repeated Usage", "crewai_version", "always", "version", "crewai"),
           Attr("Tool Repeated Usage", "tool_name", "always", "arg", "tool_name"),
           Attr("Tool Repeated Usage", "attempts", "always", "arg", "attempts") >>
        \o LlmAttr("Tool Repeated Usage", in)
        \o << SetStatusOK("Tool Repeated Usage"), EndSpan("Tool Repeated Usage") >>, in)
  ELSE Nothing

tool_usage_body(in, rdy) ==
  IF rdy THEN
    Try(<< GetTracer, StartSpan("Tool Usage"),
           Attr("Tool Usage", "crewai_version", "always", "version", "crewai"),
           Attr("Tool Usage", "tool_name", "always", "arg", "tool_name"),
           Attr("Tool Usage", "attempts", "always", "arg", "attempts") >>
        \o LlmAttr("Tool Usage", in)
        \o << SetStatusOK("Tool Usage"), EndSpan("Tool Usage") >>, in)
  ELSE Nothing

tool_usage_error_body(in, rdy) ==
  IF rdy THEN
    Try(<< GetTracer, StartSpan("Tool Usage Error"),
           Attr("Tool Usage Error", "crewai_version", "always", "version", "crewai") >>
        \o LlmAttr("Tool Usage Error", in)
        \o << SetStatusOK("Tool Usage Error"), EndSpan("Tool Usage Error") >>, in)
  ELSE Nothing

individual_test_result_span_body(in, rdy) ==
  IF rdy THEN
    Try(<< GetTracer, StartSpan("Crew Individual Test Result"),
           Attr("Crew Individual Test Result", "crewai_version", "always", "version", "crewai"),
           Attr("Crew Individual Test Result", "crew_key", "always", "get", "crew.key"),
           Attr("Crew Individual Test Result", "crew_id", "always", "str", "crew.id"),
           Attr("Crew Individual Test Result", "quality", "always", "arg", "quality"),
           Attr("Crew Individual Test Result", "exec_time", "always", "arg", "exec_time"),
           Attr("Crew Individual Test Result", "model_name", "always", "arg", "model_name"),
           SetStatusOK("Crew Individual Test Result"),
           EndSpan("Crew Individual Test Result") >>, in)
  ELSE Nothing

test_execution_span_body(in, rdy) ==
  IF rdy THEN
    Try(<< GetTracer, StartSpan("Crew Test Execution"),
           Attr("Crew Test Execution", "crewai_version", "always", "version", "crewai"),
           Attr("Crew Test Execution", "crew_key", "always", "get", "crew.key"),
           Attr("Crew Test Execution", "crew_id", "always", "str", "crew.id"),
           Attr("Crew Test Execution", "iterations", "always", "arg", "iterations"),
           Attr("Crew Test Execution", "model_name", "always", "arg", "model_name"),
           ReadShare >>
        \o (IF in.share THEN
              << Attr("Crew Test Execution", "inputs", "optin", "dumps_or_none", "inputs") >>
            ELSE <<>>)
        \o << SetStatusOK("Crew Test Execution"), EndSpan("Crew Test Execution") >>, in)
  ELSE Nothing

deploy_signup_error_span_body(in, rdy) ==
  IF rdy THEN
    Try(<< GetTracer, StartSpan("Deploy Signup Error"),
           SetStatusOK("Deploy Signup Error"), EndSpan("Deploy Signup Error") >>, in)
  ELSE Nothing

start_deployment_span_body(in, rdy) ==
  IF rdy THEN
    Try(<< GetTracer, StartSpan("Start Deployment") >>
        \o UuidAttr("Start Deployment", in)
        \o << SetStatusOK("Start Deployment"), EndSpan("Start Deployment") >>, in)
  ELSE Nothing

create_crew_deployment_span_body(in, rdy) ==
  IF rdy THEN
    Try(<< GetTracer, StartSpan("Create Crew Deployment"),
           SetStatusOK("Create Crew Deployment"), EndSpan("Create Crew Deployment") >>, in)
  ELSE Nothing

get_crew_logs_span_body(in, rdy) ==
  IF rdy THEN
    Try(<< GetTracer, StartSpan("Get Crew Logs"),
           Attr("Get Crew Logs", "log_type", "always", "arg", "log_type") >>
        \o UuidAttr("Get Crew Logs", in)
        \o << SetStatusOK("Get Crew Logs"), EndSpan("Get Crew Logs") >>, in)
  ELSE Nothing

remove_crew_span_body(in, rdy) ==
  IF rdy THEN
    Try(<< GetTracer, StartSpan("Remove Crew") >>
        \o UuidAttr("Remove Crew", in)
        \o << SetStatusOK("Remove Crew"), EndSpan("Remove Crew") >>, in)
  ELSE Nothing

\* The gate without its test of the share flag.
ShareGate_readyOnly(in, rdy, steps) ==
  IF ~rdy THEN Nothing
  ELSE IF in.fault = <<"site", "share_crew">> THEN Escapes
  ELSE Try(steps, in)

\* The gate of crew_execution_span and end_crew reads the share flag before
\* the try block is entered: "if self.ready and <share flag>:".
ShareGate(in, rdy, steps) ==
  IF ~rdy THEN Nothing
  ELSE IF in.fault = <<"site", "share_crew">> THEN Escapes
  ELSE IF ~in.share THEN Nothing
  ELSE Try(steps, in)

crew_execution_span_body(in, rdy) ==
  ShareGate(in, rdy,
    << GetTracer, StartSpan("Crew Execution"),
       Attr("Crew Execution", "crewai_version", "optin", "version", "crewai"),
       Attr("Crew Execution", "crew_key", "optin", "get", "key"),
       Attr("Crew Execution", "crew_id", "optin", "get", "id"),
       Attr("Crew Execution", "crew_inputs", "optin", "dumps_or_none", "inputs"),
       Attr("Crew Execution", "crew_agents", "optin", "dumps", "agents"),
       Attr("Crew Execution", "crew_tasks", "optin", "dumps", "tasks"),
       SetStatusOK("Crew Execution"), EndSpan("Crew Execution"),
       Return("Crew Execution") >>)

end_crew_body(in, rdy) ==
  ShareGate(in, rdy,
    << Attr("arg", "crewai_version", "optin", "version", "crewai"),
       Attr("arg", "crew_output", "optin", "arg", "final_string_output"),
       Attr("arg", "crew_tasks_output", "optin", "tasks_output", "tasks"),
       SetStatusOK("arg"), EndSpan("arg") >>)

\* flow_creation_span that ends its span before the attribute and the status.
flow_creation_span_body_closeFirst(in, rdy) ==
  IF rdy THEN
    Try(<< GetTracer, StartSpan("Flow Creation"), EndSpan("Flow Creation"),
           Attr("Flow Creation", "flow_name", "always", "arg", "flow_name"),
           SetStatusOK("Flow Creation") >>, in)
  ELSE Nothing

flow_creation_span_body(in, rdy) ==
  IF rdy THEN
    Try(<< GetTracer, StartSpan("Flow Creation"),
           Attr("Flow Creation", "flow_name", "always", "arg", "flow_name"),
           SetStatusOK("Flow Creation"), EndSpan("Flow Creation") >>, in)
  ELSE Nothing

flow_plotting_span_body(in, rdy) ==
  IF rdy THEN
    Try(<< GetTracer, StartSpan("Flow Plotting"),
           Attr("Flow Plotting", "flow_name", "always", "arg", "flow_name"),
           Attr("Flow Plotting", "node_names", "always", "dumps_arg", "node_names"),
           SetStatusOK("Flow Plotting"), EndSpan("Flow Plotting") >>, in)
  ELSE Nothing

flow_execution_span_body(in, rdy) ==
  IF rdy THEN
    Try(<< GetTracer, StartSpan("Flow Execution"),
           Attr("Flow Execution", "flow_name", "always", "arg", "flow_name"),
           Attr("Flow Execution", "node_names", "always", "dumps_arg", "node_names"),
           SetStatusOK("Flow Execution"), EndSpan("Flow Execution") >>, in)
  ELSE Nothing

\* The catalog, by operation name.
Emit(op, in, rdy) ==
  CASE op = "crew_creation" -> crew_creation_body(in, rdy)
    [] op = "task_started" -> task_started_body(in, rdy)
    [] op = "task_ended" -> task_ended_body(in, rdy)
    [] op = "tool_repeated_usage" -> tool_repeated_usage_body(in, rdy)
    [] op = "tool_usage" -> tool_usage_body(in, rdy)
    [] op = "tool_usage_error" -> tool_usage_error_body(in, rdy)
    [] op = "individual_test_result_span" -> individual_test_result_span_body(in, rdy)
    [] op = "test_execution_span" -> test_execution_span_body(in, rdy)
    [] op = "deploy_signup_error_span" -> deploy_signup_error_span_body(in, rdy)
    [] op = "start_deployment_span" -> start_deployment_span_body(in, rdy)
    [] op = "create_crew_deployment_span" -> create_crew_deployment_span_body(in, rdy)
    [] op = "get_crew_logs_span" -> get_crew_logs_span_body(in, rdy)
    [] op = "remove_crew_span" -> remove_crew_span_body(in, rdy)
    [] op = "crew_execution_span" -> crew_execution_span_body(in, rdy)
    [] op = "end_crew" -> end_crew_body(in, rdy)
    [] op = "flow_creation_span" -> flow_creation_span_body(in, rdy)
    [] op = "flow_plotting_span" -> flow_plotting_span_body(in, rdy)
    [] op = "flow_execution_span" -> flow_execution_span_body(in, rdy)

(***************************************************************************)
(* The readiness gate.                                                     *)
(***************************************************************************)
\* The constructions of __init__'s try block, in evaluation order.
InitSteps ==
  << "Resource", "TracerProvider", "OTLPSpanExporter", "BatchSpanProcessor",
     "add_span_processor" >>

\* What __init__ may meet: nothing, or one construction raising, either an
\* ordinary failure or a termination-class signal (SystemExit,
\* KeyboardInterrupt, GeneratorExit, asyncio.CancelledError).
InitFaults ==
  { [at |-> 0, kind |-> "none"] }
  \cup { [at |-> i, kind |-> k] : i \in 1..Len(InitSteps), k \in {"ordinary", "termination"} }

\* __init__ with "self.ready = True" ahead of add_span_processor and no
\* reset in the except branch.
init_body_readyEarly(f) ==
  LET done == IF f.at = 0 THEN Len(InitSteps) ELSE f.at - 1
      built == [i \in 1..done |-> Ev("construct", InitSteps[i], "", Null)]
  IN  IF f.at = 0
      THEN [ready |-> TRUE, trace_set |-> FALSE, raised |-> FALSE, trace |-> built,
            cause |-> "constructed"]
      ELSE IF f.kind = "termination"
      THEN [ready |-> FALSE, trace_set |-> FALSE, raised |-> TRUE,
            trace |-> Append(built, Ev("raise", InitSteps[f.at], f.kind, Null)),
            cause |-> "init_signal"]
      ELSE [ready |-> (f.at = Len(InitSteps)), trace_set |-> FALSE, raised |-> FALSE,
            trace |-> Append(built, Ev("raise", InitSteps[f.at], f.kind, Null)),
            cause |-> "init_failed"]

\* __init__ with an except branch that swallows every exception.
init_body_swallowsAll(f) ==
  LET done == IF f.at = 0 THEN Len(InitSteps) ELSE f.at - 1
      built == [i \in 1..done |-> Ev("construct", InitSteps[i], "", Null)]
  IN  IF f.at = 0
      THEN [ready |-> TRUE, trace_set |-> FALSE, raised |-> FALSE, trace |-> built,
            cause |-> "constructed"]
      ELSE [ready |-> FALSE, trace_set |-> FALSE, raised |-> FALSE,
            trace |-> Append(built, Ev("raise", InitSteps[f.at], f.kind, Null)),
            cause |-> "init_failed"]

\* __init__: the two fields on exit, whether the call raised, and the
\* constructions that ran.
init_body(f) ==
  LET done == IF f.at = 0 THEN Len(InitSteps) ELSE f.at - 1
      built == [i \in 1..done |-> Ev("construct", InitSteps[i], "", Null)]
  IN  IF f.at = 0
      THEN [ready |-> TRUE, trace_set |-> FALSE, raised |-> FALSE, trace |-> built,
            cause |-> "constructed"]
      ELSE IF f.kind = "termination"
      THEN [ready |-> FALSE, trace_set |-> FALSE, raised |-> TRUE,
            trace |-> Append(built, Ev("raise", InitSteps[f.at], f.kind, Null)),
            cause |-> "init_signal"]
      ELSE [ready |-> FALSE, trace_set |-> FALSE, raised |-> FALSE,
            trace |-> Append(built, Ev("raise", InitSteps[f.at], f.kind, Null)),
            cause |-> "init_failed"]

\* set_tracer without "not self.trace_set" in its condition.
set_tracer_body_rebinds(rdy, ts, kind) ==
  IF rdy THEN
    CASE kind = "none" ->
           [ready |-> rdy, trace_set |-> TRUE, raised |-> FALSE, demoted |-> FALSE,
            trace |-> << Ev("set_tracer_provider", "", "installed", Null) >>]
      [] kind = "ordinary" ->
           [ready |-> FALSE, trace_set |-> FALSE, raised |-> FALSE, demoted |-> TRUE,
            trace |-> << Ev("set_tracer_provider", "", "ordinary", Null) >>]
      [] kind = "termination" ->
           [ready |-> rdy, trace_set |-> ts, raised |-> TRUE, demoted |-> FALSE,
            trace |-> << Ev("set_tracer_provider", "", "termination", Null) >>]
  ELSE [ready |-> rdy, trace_set |-> ts, raised |-> FALSE, demoted |-> FALSE, trace |-> <<>>]

\* set_tracer with "self.trace_set = True" ahead of the installation and an
\* except branch that only demotes ready.
set_tracer_body_keepsBound(rdy, ts, kind) ==
  IF rdy /\ ~ts THEN
    CASE kind = "none" ->
           [ready |-> rdy, trace_set |-> TRUE, raised |-> FALSE, demoted |-> FALSE,
            trace |-> << Ev("set_tracer_provider", "", "installed", Null) >>]
      [] kind = "ordinary" ->
           [ready |-> FALSE, trace_set |-> TRUE, raised |-> FALSE, demoted |-> TRUE,
            trace |-> << Ev("set_tracer_provider", "", "ordinary", Null) >>]
      [] kind = "termination" ->
           [ready |-> rdy, trace_set |-> TRUE, raised |-> TRUE, demoted |-> FALSE,
            trace |-> << Ev("set_tracer_provider", "", "termination", Null) >>]
  ELSE [ready |-> rdy, trace_set |-> ts, raised |-> FALSE, demoted |-> FALSE, trace |-> <<>>]

\* set_tracer: installs the provider when ready and not yet bound.
set_tracer_body(rdy, ts, kind) ==
  IF rdy /\ ~ts THEN
    CASE kind = "none" ->
           [ready |-> rdy, trace_set |-> TRUE, raised |-> FALSE, demoted |-> FALSE,
            trace |-> << Ev("set_tracer_provider", "", "installed", Null) >>]
      [] kind = "ordinary" ->
           [ready |-> FALSE, trace_set |-> FALSE, raised |-> FALSE, demoted |-> TRUE,
            trace |-> << Ev("set_tracer_provider", "", "ordinary", Null) >>]
      [] kind = "termination" ->
           [ready |-> rdy, trace_set |-> ts, raised |-> TRUE, demoted |-> FALSE,
            trace |-> << Ev("set_tracer_provider", "", "termination", Null) >>]
  ELSE [ready |-> rdy, trace_set |-> ts, raised |-> FALSE, demoted |-> FALSE, trace |-> <<>>]

(***************************************************************************)
(* Span handles.  ends counts span.end() on the handle: 0 open, 1 closed   *)
(* once, 2 closed more than once.                                          *)
(***************************************************************************)
Fresh(name) == [name |-> name, status |-> "UNSET", ends |-> 0]

Bump(n) == IF n < 2 THEN n + 1 ELSE 2

\* The calls of a trace on the span `ref`, applied to its record in order.
RECURSIVE ApplyTo(_, _, _)
ApplyTo(sp, trace, ref) ==
  IF trace = <<>> THEN sp
  ELSE LET ev == Head(trace)
           nxt == IF ev.span # ref THEN sp
                  ELSE CASE ev.e = "status" -> [sp EXCEPT !.status = "OK"]
                         [] ev.e = "end" -> [sp EXCEPT !.ends = Bump(@)]
                         [] OTHER -> sp
       IN  ApplyTo(nxt, Tail(trace), ref)

\* The keys a trace attached.
AttachedKeys(trace) ==
  { trace[i].key : i \in { j \in 1..Len(trace) : trace[j].e = "attr" } }

\* The table after a call: the handle it was given, and the handle it
\* returned when the caller keeps it.
Table(in, out, keep) ==
  LET touched == IF in.arg = None THEN spans
                 ELSE [spans EXCEPT ![in.arg] = ApplyTo(@, out.trace, "arg")]
  IN  IF out.ret # "None" /\ keep
      THEN Append(touched, ApplyTo(Fresh(out.ret), out.trace, out.ret))
      ELSE touched

\* No call is being observed.
Idle ==
  [op |-> "idle", ready |-> FALSE, trace_set |-> FALSE, pre |-> <<>>, share |-> FALSE,
   arg |-> None, kept |-> FALSE, faulty |-> FALSE, bad |-> {}, trace |-> <<>>,
   ret |-> "None", raised |-> FALSE, aborted |-> FALSE, twin |-> {}, data |-> NoCrew]

\* The observation of a catalog call.  ready, trace_set and pre are the
\* fields and the handle table the call was made in; kept tells whether the
\* caller keeps the returned value; faulty whether the environment failed
\* during the call; bad are the arguments json cannot encode;
\* twin is the key set the same call attaches with the share flag negated;
\* data are the lists the call was given.
Observe(op, in, out, keep) ==
  [op |-> op, ready |-> ready, trace_set |-> trace_set, pre |-> spans,
   share |-> in.share, arg |-> in.arg, kept |-> keep, faulty |-> (in.fault # NoFault),
   bad |-> { a \in {"agents", "tasks", "inputs", "node_names"} : ~Serializable(in[a]) },
   trace |-> out.trace, ret |-> out.ret, raised |-> out.raised, aborted |-> out.aborted,
   twin |-> AttachedKeys(Emit(op, [in EXCEPT !.share = ~in.share], ready).trace),
   data |-> [agents |-> in.agents, tasks |-> in.tasks, inputs |-> in.inputs]]

\* A catalog operation whose except branch demotes ready.
Call_demoting(op, in, keep) ==
  LET out == Emit(op, in, ready)
  IN  /\ last = Idle
      /\ spans' = Table(in, out, keep)
      /\ last' = Observe(op, in, out, keep)
      /\ ready' = (ready /\ ~out.aborted)
      /\ UNCHANGED <<trace_set, cause, installs>>

\* A catalog operation called on the Telemetry object.  No catalog operation
\* assigns ready or trace_set.
Call(op, in, keep) ==
  LET out == Emit(op, in, ready)
  IN  /\ last = Idle
      /\ spans' = Table(in, out, keep)
      /\ last' = Observe(op, in, out, keep)
      /\ UNCHANGED <<ready, trace_set, cause, installs>>

\* The observation of __init__ and set_tracer.
ObserveGate(op, pre, res) ==
  [op |-> op, ready |-> pre.ready, trace_set |-> pre.trace_set, pre |-> pre.spans,
   share |-> FALSE, arg |-> None, kept |-> FALSE, faulty |-> FALSE, bad |-> {},
   trace |-> res.trace, ret |-> "None", raised |-> res.raised, aborted |-> FALSE,
   twin |-> {}, data |-> NoCrew]

Now == [ready |-> ready, trace_set |-> trace_set, spans |-> spans]

InputSamples == { <<>>, <<"p">>, <<"o">> }

\* crew.tasks as end_crew reads it: "o" is a task whose output cannot be read.
TaskLists == { <<"p", "p">>, <<"o">> }

TaskHandles == { i \in 1..Len(spans) : spans[i].name = "Task Execution" }

(***************************************************************************)
(* Actions.                                                                *)
(***************************************************************************)
\* telemetry.__init__() run again on the existing object.
init ==
  \E f \in InitFaults :
    LET res == init_body(f)
    IN  /\ last = Idle
        /\ ready' = res.ready
        /\ trace_set' = res.trace_set
        /\ cause' = res.cause
        /\ installs' = 0
        /\ last' = ObserveGate("__init__", Now, res)
        /\ UNCHANGED <<spans, execution_span>>

set_tracer ==
  \E kind \in {"none", "ordinary", "termination"} :
    LET res == set_tracer_body(ready, trace_set, kind)
    IN  /\ last = Idle
        /\ ready' = res.ready
        /\ trace_set' = res.trace_set
        /\ cause' = IF res.demoted THEN "bind_failed" ELSE cause
        /\ installs' = IF res.trace # <<>> THEN Bump(installs) ELSE installs
        /\ last' = ObserveGate("set_tracer", Now, res)
        /\ UNCHANGED <<spans, execution_span>>

crew_creation ==
  \E sh \in BOOLEAN, c \in CrewSamples, f \in Faults :
    /\ Call("crew_creation", Input(sh, c, FALSE, FALSE, FALSE, <<>>, None, f), FALSE)
    /\ UNCHANGED execution_span

task_started ==
  \E sh \in BOOLEAN, f \in Faults :
    /\ Len(spans) < MaxHandles
    /\ Call("task_started", Input(sh, NoCrew, FALSE, FALSE, FALSE, <<>>, None, f), TRUE)
    /\ UNCHANGED execution_span

task_ended ==
  \E sh \in BOOLEAN, o \in BOOLEAN, h \in {None} \cup TaskHandles, f \in Faults :
    /\ Call("task_ended", Input(sh, NoCrew, FALSE, FALSE, o, <<>>, h, f), FALSE)
    /\ UNCHANGED execution_span

tool_repeated_usage ==
  \E llm \in BOOLEAN, f \in Faults :
    /\ Call("tool_repeated_usage", Input(FALSE, NoCrew, llm, FALSE, FALSE, <<>>, None, f), FALSE)
    /\ UNCHANGED execution_span

tool_usage ==
  \E llm \in BOOLEAN, f \in Faults :
    /\ Call("tool_usage", Input(FALSE, NoCrew, llm, FALSE, FALSE, <<>>, None, f), FALSE)
    /\ UNCHANGED execution_span

tool_usage_error ==
  \E llm \in BOOLEAN, f \in Faults :
    /\ Call("tool_usage_error", Input(FALSE, NoCrew, llm, FALSE, FALSE, <<>>, None, f), FALSE)
    /\ UNCHANGED execution_span

individual_test_result_span ==
  \E f \in Faults :
    /\ Call("individual_test_result_span",
            Input(FALSE, NoCrew, FALSE, FALSE, FALSE, <<>>, None, f), FALSE)
    /\ UNCHANGED execution_span

test_execution_span ==
  \E sh \in BOOLEAN, i \in InputSamples, f \in Faults :
    /\ Call("test_execution_span",
            Input(sh, [NoCrew EXCEPT !.inputs = i], FALSE, FALSE, FALSE, <<>>, None, f), FALSE)
    /\ UNCHANGED execution_span

deploy_signup_error_span ==
  \E f \in Faults :
    /\ Call("deploy_signup_error_span",
            Input(FALSE, NoCrew, FALSE, FALSE, FALSE, <<>>, None, f), FALSE)
    /\ UNCHANGED execution_span

start_deployment_span ==
  \E u \in BOOLEAN, f \in Faults :
    /\ Call("start_deployment_span", Input(FALSE, NoCrew, FALSE, u, FALSE, <<>>, None, f), FALSE)
    /\ UNCHANGED execution_span

create_crew_deployment_span ==
  \E f \in Faults :
    /\ Call("create_crew_deployment_span",
            Input(FALSE, NoCrew, FALSE, FALSE, FALSE, <<>>, None, f), FALSE)
    /\ UNCHANGED execution_span

get_crew_logs_span ==
  \E u \in BOOLEAN, f \in Faults :
    /\ Call("get_crew_logs_span", Input(FALSE, NoCrew, FALSE, u, FALSE, <<>>, None, f), FALSE)
    /\ UNCHANGED execution_span

remove_crew_span ==
  \E u \in BOOLEAN, f \in Faults :
    /\ Call("remove_crew_span", Input(FALSE, NoCrew, FALSE, u, FALSE, <<>>, None, f), FALSE)
    /\ UNCHANGED execution_span

\* Called by the crew, which keeps the returned value in _execution_span.
crew_execution_span ==
  \E sh \in BOOLEAN, c \in CrewSamples, f \in Faults :
    LET in == Input(sh, c, FALSE, FALSE, FALSE, <<>>, None, f)
    IN  /\ Len(spans) < MaxHandles
        /\ Call("crew_execution_span", in, TRUE)
        /\ execution_span' =
             IF Emit("crew_execution_span", in, ready).ret = "None" THEN None
             ELSE Len(spans) + 1

\* Called as the handler of CrewEvents.CREW_START: nobody keeps the value.
on_CREW_START ==
  \E sh \in BOOLEAN, c \in CrewSamples, f \in Faults :
    /\ Call("crew_execution_span", Input(sh, c, FALSE, FALSE, FALSE, <<>>, None, f), FALSE)
    /\ UNCHANGED execution_span

end_crew ==
  \E sh \in BOOLEAN, t \in TaskLists, f \in Faults :
    /\ Call("end_crew",
            Input(sh, [NoCrew EXCEPT !.tasks = t], FALSE, FALSE, FALSE, <<>>, execution_span, f),
            FALSE)
    /\ UNCHANGED execution_span

flow_creation_span ==
  \E f \in Faults :
    /\ Call("flow_creation_span", Input(FALSE, NoCrew, FALSE, FALSE, FALSE, <<>>, None, f), FALSE)
    /\ UNCHANGED execution_span

flow_plotting_span ==
  \E n \in NodeSamples, f \in Faults :
    /\ Call("flow_plotting_span", Input(FALSE, NoCrew, FALSE, FALSE, FALSE, n, None, f), FALSE)
    /\ UNCHANGED execution_span

flow_execution_span ==
  \E n \in NodeSamples, f \in Faults :
    /\ Call("flow_execution_span", Input(FALSE, NoCrew, FALSE, FALSE, FALSE, n, None, f), FALSE)
    /\ UNCHANGED execution_span

\* The caller is done with the call that returned.
discard ==
  /\ last # Idle
  /\ last' = Idle
  /\ UNCHANGED <<ready, trace_set, cause, installs, spans, execution_span>>

\* The module-level "telemetry = Telemetry()" has returned: __init__ ran on a
\* new object and did not raise a termination-class signal.
Init ==
  \E f \in { g \in InitFaults : g.kind # "termination" } :
    LET res == init_body(f)
    IN  /\ ready = res.ready
        /\ trace_set = res.trace_set
        /\ cause = res.cause
        /\ installs = 0
        /\ spans = <<>>
        /\ execution_span = None
        /\ last = ObserveGate("__init__", [ready |-> FALSE, trace_set |-> FALSE, spans |-> <<>>], res)

Next ==
  \/ init
  \/ set_tracer
  \/ crew_creation
  \/ task_started
  \/ task_ended
  \/ tool_repeated_usage
  \/ tool_usage
  \/ tool_usage_error
  \/ individual_test_result_span
  \/ test_execution_span
  \/ deploy_signup_error_span
  \/ start_deployment_span
  \/ create_crew_deployment_span
  \/ get_crew_logs_span
  \/ remove_crew_span
  \/ crew_execution_span
  \/ on_CREW_START
  \/ end_crew
  \/ flow_creation_span
  \/ flow_plotting_span
  \/ flow_execution_span
  \/ discard

Spec == Init /\ [][Next]_vars

(***************************************************************************)
(* Properties.                                                             *)
(***************************************************************************)
CatalogOps ==
  { "crew_creation", "task_started", "task_ended", "tool_repeated_usage", "tool_usage",
    "tool_usage_error", "individual_test_result_span", "test_execution_span",
    "deploy_signup_error_span", "start_deployment_span", "create_crew_deployment_span",
    "get_crew_logs_span", "remove_crew_span", "crew_execution_span", "end_crew",
    "flow_creation_span", "flow_plotting_span", "flow_execution_span" }

\* The spans a trace opened, and how often it closed the span `ref`.
Started(trace) ==
  { trace[i].span : i \in { j \in 1..Len(trace) : trace[j].e = "start" } }

EndCount(trace, ref) ==
  Cardinality({ j \in 1..Len(trace) : trace[j].e = "end" /\ trace[j].span = ref })

HasStatus(trace, ref) ==
  \E j \in 1..Len(trace) : trace[j].e = "status" /\ trace[j].span = ref

\* C1: a catalog operation called while ready is false opens no span,
\* attaches nothing, closes nothing, lets no exception out and returns None;
\* the handles its caller holds are as they were.
C1_NoOpWhenNotReady ==
  (last.op \in CatalogOps /\ ~last.ready) =>
    /\ last.trace = <<>>
    /\ ~last.raised
    /\ last.ret = "None"
    /\ spans = last.pre

\* task_ended was given a live handle while ready was false.
C1_Witness ==
  /\ last.op = "task_ended" /\ ~last.ready /\ last.share
  /\ last.arg # None /\ spans[last.arg].ends = 0

\* C2 as stated: with ready true no catalog operation raises to its caller.
C2_NeverRaises ==
  (last.op \in CatalogOps /\ last.ready) => ~last.raised

(***************************************************************************)
(* C3.  The key sets of the two runs of one call: the observed one and its *)
(* twin with the share flag negated.                                       *)
(***************************************************************************)
OptInOps == {"crew_creation", "task_started", "task_ended", "test_execution_span"}

OptInKeys ==
  { "crew_agents", "crew_tasks", "platform", "platform_release", "platform_system",
    "platform_version", "cpus", "crew_inputs", "formatted_description",
    "formatted_expected_output", "task_output", "inputs" }

AlwaysKeys(op) ==
  CASE op = "crew_creation" ->
         { "crewai_version", "python_version", "crew_key", "crew_id", "crew_process",
           "crew_memory", "crew_number_of_tasks", "crew_number_of_agents" }
    [] op = "task_started" -> { "crew_key", "crew_id", "task_key", "task_id" }
    [] op = "test_execution_span" ->
         { "crewai_version", "crew_key", "crew_id", "iterations", "model_name" }
    [] OTHER -> {}

KeysShared == IF last.share THEN AttachedKeys(last.trace) ELSE last.twin
KeysNotShared == IF last.share THEN last.twin ELSE AttachedKeys(last.trace)

\* C3 as stated: the keys attached with the share flag false are a strict
\* subset of those attached with it true, and hold no opt-in key.  Stated for
\* the calls made with ready true and the share flag true whose emission ran
\* to its end and attached every always-tier key.
C3_StrictSubset ==
  (/\ last.op \in OptInOps /\ last.ready /\ last.share /\ ~last.aborted
   /\ AlwaysKeys(last.op) \subseteq KeysShared) =>
    /\ KeysNotShared \subseteq KeysShared
    /\ KeysNotShared # KeysShared
    /\ KeysNotShared \cap OptInKeys = {}

\* C3, amended: the keys attached with the share flag false are a subset of
\* those attached with it true and hold no opt-in key; the subset is strict,
\* and every always-tier key is attached in both runs, when ready is true,
\* nothing fails during the call and the handle given to task_ended is
\* present.
C3_Subset ==
  last.op \in OptInOps =>
    /\ KeysNotShared \subseteq KeysShared
    /\ KeysNotShared \cap OptInKeys = {}
    /\ (last.ready /\ ~last.faulty /\ last.bad = {}
        /\ (last.op = "task_ended" => last.arg # None)) =>
         /\ KeysNotShared # KeysShared
         /\ AlwaysKeys(last.op) \subseteq KeysNotShared

\* crew_creation ran with the share flag true and attached the crew inputs;
\* its twin attached the always-tier keys only.
C3_Witness ==
  /\ last.op = "crew_creation" /\ last.ready /\ last.share
  /\ "crew_inputs" \in AttachedKeys(last.trace)
  /\ last.twin = AlwaysKeys("crew_creation")

\* C4: crew_execution_span, called directly or as the CREW_START handler,
\* opens no span when the share flag is false (or ready is), and a span named
\* "Crew Execution" is opened only by it, with ready and the share flag true.
C4_ExecutionSpanGate ==
  /\ (last.op = "crew_execution_span" /\ ~(last.ready /\ last.share)) =>
       (last.trace = <<>> /\ last.ret = "None" /\ spans = last.pre)
  /\ "Crew Execution" \in Started(last.trace) =>
       (last.op = "crew_execution_span" /\ last.ready /\ last.share)

\* The CREW_START handler ran with ready true and the share flag false.
C4_Witness ==
  /\ last.op = "crew_execution_span" /\ ~last.kept
  /\ last.ready /\ ~last.share /\ last.trace = <<>>

\* The keys an operation may attach when the share flag is true.
PermittedKeys(op) ==
  CASE op = "crew_creation" ->
         AlwaysKeys(op) \cup { "crew_agents", "crew_tasks", "platform", "platform_release",
                               "platform_system", "platform_version", "cpus", "crew_inputs" }
    [] op = "crew_execution_span" ->
         { "crewai_version", "crew_key", "crew_id", "crew_inputs", "crew_agents", "crew_tasks" }
    [] OTHER -> {}

SpanNameOf(op) == IF op = "crew_creation" THEN "Crew Created" ELSE "Crew Execution"

\* The attribute that carries the argument `a`.
KeyOf(a) == IF a = "agents" THEN "crew_agents" ELSE IF a = "tasks" THEN "crew_tasks" ELSE "crew_inputs"

\* C5 as stated: in crew_creation and crew_execution_span a value that cannot
\* be serialized costs only its own attribute: every other permitted
\* attribute is attached, the span gets status OK and is closed.
C5_SiblingsAttached ==
  (last.op \in {"crew_creation", "crew_execution_span"} /\ last.ready /\ last.share
   /\ ~last.faulty /\ last.bad # {}) =>
    /\ PermittedKeys(last.op) \ { KeyOf(a) : a \in last.bad } \subseteq AttachedKeys(last.trace)
    /\ HasStatus(last.trace, SpanNameOf(last.op))
    /\ EndCount(last.trace, SpanNameOf(last.op)) = 1

FireAndForgetOps == CatalogOps \ {"task_started", "task_ended", "end_crew"}

\* C6 as stated: when a fire-and-forget operation returns, every span it
\* opened has been closed, whether or not a step in between failed.
C6_OpenedSpansClosed ==
  last.op \in FireAndForgetOps =>
    \A n \in Started(last.trace) : EndCount(last.trace, n) >= 1

\* The task handles of a table.
TaskHandlesOf(table) == { i \in 1..Len(table) : table[i].name = "Task Execution" }

\* C7 as stated: task_ended given no handle does not raise; and task_ended,
\* given one of the two handles of two task_started calls, leaves exactly one
\* of the two unclosed and closes none twice.
C7_OneHandleUnclosed ==
  /\ (last.op = "task_ended" /\ last.arg = None) => ~last.raised
  /\ (/\ last.op = "task_ended" /\ last.ready
      /\ Cardinality(TaskHandlesOf(last.pre)) = 2
      /\ last.arg \in TaskHandlesOf(last.pre)
      /\ \A i \in TaskHandlesOf(last.pre) : last.pre[i] = Fresh("Task Execution")) =>
       /\ Cardinality({ i \in TaskHandlesOf(last.pre) : spans[i].ends = 0 }) = 1
       /\ \A i \in TaskHandlesOf(last.pre) : spans[i].ends <= 1

\* C8 as stated: the handle end_crew receives from crew_execution_span is
\* still open, and end_crew leaves it closed exactly once.  Stated for the
\* calls of end_crew in which nothing fails.
C8_ExecutionSpanClosedOnce ==
  (/\ last.op = "end_crew" /\ last.ready /\ last.share /\ last.arg # None
   /\ ~last.faulty /\ last.bad = {}) =>
    /\ last.pre[last.arg].ends = 0
    /\ spans[last.arg].ends = 1

\* How __init__ failed: "none", "ordinary" or "termination".
RaisedKind(trace) ==
  IF trace # <<>> /\ trace[Len(trace)].e = "raise" THEN trace[Len(trace)].key ELSE "none"

\* C9: an ordinary failure of a construction step makes __init__ return
\* normally with ready false; and as long as ready has its value from that
\* failure (no re-initialization since), ready is false and no set_tracer or
\* catalog call opens a span, does anything to a handle or raises.
C9_InertAfterInitFailure ==
  /\ (last.op = "__init__" /\ RaisedKind(last.trace) = "ordinary") =>
       (~last.raised /\ ~ready /\ cause = "init_failed")
  /\ cause = "init_failed" =>
       /\ ~ready
       /\ last.op \in CatalogOps \cup {"set_tracer"} =>
            (Started(last.trace) = {} /\ spans = last.pre /\ ~last.raised)
       /\ last.op \in CatalogOps => last.trace = <<>>

\* After a failed re-initialization task_ended was given a handle that an
\* earlier task_started had returned.
C9_Witness ==
  /\ cause = "init_failed" /\ ~ready
  /\ last.op = "task_ended" /\ last.arg # None /\ last.share

\* C10 as stated: a termination-class signal raised in __init__ propagates
\* and leaves ready as it was before the call.
C10_ReadyAsBefore ==
  (last.op = "__init__" /\ RaisedKind(last.trace) = "termination") =>
    (last.raised /\ ready = last.ready)

\* C10, amended: __init__ raises to its caller exactly when a construction
\* step raised a termination-class signal, and ready is then false, the value
\* __init__ assigned on entry, whatever it was before the call.
C10_SignalPropagates ==
  last.op = "__init__" =>
    /\ last.raised <=> RaisedKind(last.trace) = "termination"
    /\ last.raised => (~ready /\ ~trace_set)

\* __init__ was run again on an object whose ready was true and raised.
C10_Witness ==
  /\ last.op = "__init__" /\ last.raised
  /\ last.ready /\ ~ready

\* The outcome of the installation a set_tracer call attempted, "" if none.
Attempt(obs) ==
  IF obs.op = "set_tracer" /\ obs.trace # <<>> THEN obs.trace[1].key ELSE ""

\* An installation attempted since the last __init__ has run to its end:
\* it succeeded or it failed with an ordinary failure.
InstallCompleted == trace_set \/ cause = "bind_failed"

\* C11 as stated: over the calls made after one initialization the provider
\* installation is attempted at most once.
C11_AttemptedAtMostOnce == installs <= 1

\* C11: set_tracer attempts the installation exactly when ready is true and
\* trace_set false; a successful attempt leaves trace_set true, an ordinary
\* failure leaves ready and trace_set false, and an attempt cut short by a
\* termination-class signal raises and leaves both as they were; once an
\* attempt has run to its end no call after it attempts again, so a second
\* attempt only follows attempts that a termination-class signal cut short.
C11_CompletedAtMostOnce ==
  /\ last.op = "set_tracer" =>
        /\ (Attempt(last) # "") = (last.ready /\ ~last.trace_set)
        /\ Attempt(last) = "installed" => (ready /\ trace_set /\ ~last.raised)
        /\ Attempt(last) = "ordinary" => (~ready /\ ~trace_set /\ ~last.raised)
        /\ Attempt(last) = "termination" =>
              (ready = last.ready /\ trace_set = last.trace_set /\ last.raised)
        /\ Attempt(last) = "" =>
              (ready = last.ready /\ trace_set = last.trace_set /\ ~last.raised)
        /\ (InstallCompleted /\ Attempt(last) \notin {"installed", "ordinary"}) =>
              Attempt(last) = ""
  /\ InstallCompleted => installs >= 1

\* A call of set_tracer that installs the provider after an earlier attempt
\* was cut short by a termination-class signal.
C11_Witness ==
  /\ last.op = "set_tracer" /\ last.ready /\ ~last.trace_set
  /\ Attempt(last) = "installed" /\ installs = 2 /\ trace_set

\* The values a trace attached under `key`.
ValuesOf(trace, key) ==
  { trace[i].v : i \in { j \in 1..Len(trace) : trace[j].e = "attr" /\ trace[j].key = key } }

\* The number of spans a trace started.
StartCount(trace) == Cardinality({ j \in 1..Len(trace) : trace[j].e = "start" })

\* The opt-in keys of crew_creation.
CrewCreationOptIn ==
  { "crew_agents", "crew_tasks", "platform", "platform_release", "platform_system",
    "platform_version", "cpus", "crew_inputs" }

\* C12: crew_creation called with ready true.  Whatever happens, each count
\* it attaches is the length of its list and without the share flag it
\* attaches no opt-in key.  When nothing fails and the lists can be
\* serialized it starts exactly one span, "Crew Created", sets its status and
\* ends it once, attaches both counts for either value of the share flag,
\* attaches exactly the always-tier keys without the share flag, and with it
\* the same keys plus crew_agents and crew_tasks (the serialized lists),
\* crew_inputs (the serialized inputs, None when there are none), the
\* platform fields and cpus.
C12_CrewCreated ==
  (last.op = "crew_creation" /\ last.ready) =>
    /\ ValuesOf(last.trace, "crew_number_of_tasks") \subseteq {IntV(Len(last.data.tasks))}
    /\ ValuesOf(last.trace, "crew_number_of_agents") \subseteq {IntV(Len(last.data.agents))}
    /\ ~last.share => AttachedKeys(last.trace) \cap CrewCreationOptIn = {}
    /\ (~last.faulty /\ last.bad = {}) =>
          /\ StartCount(last.trace) = 1
          /\ Started(last.trace) = {"Crew Created"}
          /\ HasStatus(last.trace, "Crew Created")
          /\ EndCount(last.trace, "Crew Created") = 1
          /\ ValuesOf(last.trace, "crew_number_of_tasks") = {IntV(Len(last.data.tasks))}
          /\ ValuesOf(last.trace, "crew_number_of_agents") = {IntV(Len(last.data.agents))}
          /\ ~last.share => AttachedKeys(last.trace) = AlwaysKeys("crew_creation")
          /\ last.share =>
                /\ AttachedKeys(last.trace) = AlwaysKeys("crew_creation") \cup CrewCreationOptIn
                /\ ValuesOf(last.trace, "crew_agents") = {StrV(json_dumps(last.data.agents))}
                /\ ValuesOf(last.trace, "crew_tasks") = {StrV(json_dumps(last.data.tasks))}
                /\ ValuesOf(last.trace, "crew_inputs") =
                     {IF last.data.inputs = <<>> THEN Null
                      ELSE StrV(json_dumps(last.data.inputs))}

\* crew_creation of a crew with two tasks and one agent, shared, with inputs.
C12_Witness ==
  /\ last.op = "crew_creation" /\ last.ready /\ last.share
  /\ ~last.faulty /\ last.bad = {}
  /\ Len(last.data.tasks) = 2 /\ Len(last.data.agents) = 1 /\ last.data.inputs # <<>>
  /\ ValuesOf(last.trace, "crew_number_of_tasks") = {IntV(2)}
  /\ "crew_inputs" \in AttachedKeys(last.trace)

\* The flow events that carry the node name list.
FlowNodeOps == {"flow_plotting_span", "flow_execution_span"}

\* C13 as stated: flow_plotting_span and flow_execution_span attach
\* node_names only when the share flag is true; without it the key is absent.
C13_NodeNamesOptIn ==
  (last.op \in FlowNodeOps /\ ~last.share) => "node_names" \notin AttachedKeys(last.trace)

\* C14: a catalog operation leaves ready and trace_set as they were when it
\* was called, whether it did nothing, ran to its end, lost an attribute,
\* was aborted or let an exception out.
C14_EmissionKeepsGate ==
  last.op \in CatalogOps => (ready = last.ready /\ trace_set = last.trace_set)

\* An emission aborted with the tracer bound: ready and trace_set stay true.
C14_Witness ==
  /\ last.op \in CatalogOps /\ last.ready /\ last.trace_set
  /\ last.aborted /\ last.trace # <<>> /\ ready /\ trace_set

\* The positions of a trace at which `e` is called on the span `ref`.
At(trace, e, ref) == { j \in 1..Len(trace) : trace[j].e = e /\ trace[j].span = ref }

\* The spans a trace calls the library on.
SpansOf(trace) == { trace[j].span : j \in 1..Len(trace) }

\* C15: in the calls a catalog operation makes, a span it starts is started
\* before anything else is done to it, every end of a span comes after a
\* set_status(OK) on that span, and in a fire-and-forget operation nothing is
\* attached after an end.
C15_StatusBeforeClose ==
  last.op \in CatalogOps =>
    /\ \A ref \in SpansOf(last.trace) :
          /\ \A i \in At(last.trace, "end", ref) :
                \E j \in At(last.trace, "status", ref) : j < i
          /\ \A i \in At(last.trace, "start", ref) :
                \A j \in 1..Len(last.trace) : last.trace[j].span = ref => i <= j
    /\ last.op \in FireAndForgetOps =>
          \A i \in 1..Len(last.trace), j \in 1..Len(last.trace) :
            (last.trace[i].e = "end" /\ last.trace[j].e = "attr") => j < i

\* flow_creation_span run to its end: attribute, status, end, in this order.
C15_Witness ==
  /\ last.op = "flow_creation_span" /\ last.ready /\ ~last.aborted
  /\ "flow_name" \in AttachedKeys(last.trace)
  /\ HasStatus(last.trace, "Flow Creation")
  /\ EndCount(last.trace, "Flow Creation") = 1

\* C16 as stated, for end_crew: the late-bound attributes crewai_version,
\* crew_output and crew_tasks_output are attached to the handle received
\* from crew_execution_span while that handle is still open.
C16_NoAttributeAfterClose ==
  (/\ last.op = "end_crew" /\ last.arg # None
   /\ \E j \in At(last.trace, "attr", "arg") :
         last.trace[j].key \in {"crewai_version", "crew_output", "crew_tasks_output"}) =>
    last.pre[last.arg].ends = 0

\* The number of open handles of a table.
OpenCount(table) == Cardinality({ i \in 1..Len(table) : table[i].ends = 0 })

\* task_started returned a handle: it started "Task Created", set its status
\* and ended it once, then started "Task Execution" and returned it without
\* ending it, so that one more handle is open than before the call.
TaskStartedOpensOne ==
  (last.op = "task_started" /\ last.ready /\ last.ret # "None") =>
    /\ StartCount(last.trace) = 2
    /\ Started(last.trace) = {"Task Created", "Task Execution"}
    /\ HasStatus(last.trace, "Task Created")
    /\ EndCount(last.trace, "Task Created") = 1
    /\ last.ret = "Task Execution"
    /\ EndCount(last.trace, "Task Execution") = 0
    /\ OpenCount(spans) = OpenCount(last.pre) + 1

\* task_ended called with ready true on a handle as task_started returned it
\* leaves one open handle fewer than before the call.
TaskEndedClosesOne ==
  (/\ last.op = "task_ended" /\ last.ready
   /\ last.arg \in TaskHandlesOf(last.pre)
   /\ last.pre[last.arg] = Fresh("Task Execution")) =>
    OpenCount(spans) = OpenCount(last.pre) - 1

\* C17 as stated: a successful task_started opens two spans, closes "Task
\* Created" with status OK and returns "Task Execution" still open, one more
\* open span than before; a later task_ended on that handle brings the
\* number of open spans back to what it was.
C17_OpenSpanCount == TaskStartedOpensOne /\ TaskEndedClosesOne

\* C18: between calls, trace_set true implies ready true; the demotion of
\* set_tracer leaves trace_set false, and __init__ run again, whatever its
\* outcome, leaves trace_set false.
C18_BoundImpliesReady ==
  /\ trace_set => ready
  /\ (last.op = "set_tracer" /\ last.ready /\ ~ready) => ~trace_set
  /\ last.op = "__init__" => ~trace_set

\* The tracer has just been bound.
C18_Witness ==
  /\ last.op = "set_tracer" /\ ~last.trace_set /\ Attempt(last) = "installed"
  /\ trace_set /\ ready

====
